---- MODULE Spec2Model ----
(***************************************************************************)
(* Model of Report.to_dataframe (mstrio/project_objects/report.py): the    *)
(* chunked fetch of a report instance into one table, by the sequential    *)
(* loop of __fetch_chunks or by the futures fan-out of                     *)
(*                                                                         *)
(* __fetch_chunks_future, and the filters of apply_filters that decide     *)
(* which rows the instance holds and which rows of the parsed table are    *)
(* returned.                                                               *)
(*                                                                         *)
(* A table is kept as the sequence of the pages the parser was given, each *)
(* page standing for the instance rows offset .. offset + n - 1; RowAt     *)
(* gives the offset of the row at a position of the table. The report has  *)
(* one attribute of two elements, 0 and 1: row i of the report holds       *)
(* element i % 2. Columns are not modelled.                                *)
(* Python's None is the empty tuple and a present value v is <<v>>.        *)
(*                                                                         *)
(* The module also models SubscriptionManager.delete, execute and          *)
(* available_recipients (subscription_manager.py): a call is split where   *)
(* it waits for the user or for the server. A subscription is known by its *)
(* ID, and the server's answers are inputs.                                *)
(***************************************************************************)
EXTENDS Integers, Sequences, FiniteSets, TLC

\* ---- bounds of the model
MaxBlocks == 3
MaxExtra == 3
MaxLimit == 2
MaxRawUnits == 1
MaxChunks == 2
MaxWorkers == 2
MaxCalls == 2
MaxSubs == 2
MaxPassed == 2
MaxAttrs == 2
MaxElements == 3
MaxElementLimit == 2
MaxServerEvents == 2
MaxEvents == 2

\* ---- constants of the program
DEFAULT_INITIAL_LIMIT == 1000
MIN_CHUNK == 1000
SIZE_LIMIT == 10000000

None == <<>>
Some(v) == <<v>>

Min(a, b) == IF a <= b THEN a ELSE b
Max(a, b) == IF a >= b THEN a ELSE b

\* int(a / b) of Python for b > 0: the quotient truncated toward zero
TruncDiv(a, b) == IF a >= 0 THEN a \div b ELSE -((-a) \div b)

RECURSIVE Gcd(_, _)
Gcd(a, b) == IF b = 0 THEN a ELSE Gcd(b, a % b)

\* int((a * b) / c) of Python for a, b >= 0 and c > 0, where the quotient of the
\* float division is exact to the unit for products below 2^53. The product is
\* not formed: a * b = a * c * (b \div c) + a * (b % c), and the fraction
\* (b % c) / c is reduced first, which keeps every intermediate value small.
MulDiv(a, b, c) ==
    LET r == b % c
        g == Gcd(c, r)
    IN a * (b \div c) + TruncDiv(a * (r \div g), c \div g)

\* bool(x) of Python for an optional integer: None and 0 are false
Truthy(l) == l # None /\ l[1] # 0

\* list(range(start, stop, step)) for step > 0
RECURSIVE Range(_, _, _)
Range(start, stop, step) ==
    IF start >= stop THEN <<>>
    ELSE <<start>> \o Range(start + step, stop, step)

\* ---- the inputs
Totals == {b * DEFAULT_INITIAL_LIMIT : b \in 0..MaxBlocks} \cup (0..MaxExtra)
LimitArgs == {None} \cup {Some(l) : l \in 0..MaxLimit}
\* the byte sizes of a first page: a fifth of the size target, and the target
\* less k fifths
RawSizes ==
    {SIZE_LIMIT \div 5} \cup {SIZE_LIMIT - k * (SIZE_LIMIT \div 5) : k \in 1..MaxRawUnits}
\* the attr_elements arguments of apply_filters: none, or a list of elements
FilterArgs == {None, Some({0})}
\* the responses of a server: well-formed ones, a first one whose paging
\* reports a negative total, a first one with an empty body, and later pages
\* that report another total than the first
Faults == {"none", "negative_total", "empty_body", "inconsistent_total"}

VARIABLES
    total,          \* rows of the report on the server
    grid_cross_tab, \* grid["crossTab"] of the report definition on the server
    fault,          \* what is wrong with the responses of the server, if anything
    instance_id,    \* Report.instance_id
    initial_limit,  \* Report._initial_limit
    parallel,       \* Report._parallel
    dataframe,      \* Report._dataframe
    progress_bar,   \* Report._progress_bar
    cross_tab,      \* Report._cross_tab
    definition_retrieved,   \* Report.__definition_retrieved
    cross_tab_filter,       \* Report._cross_tab_filter: {} is None, a dict its attr_elements
    filter_sel,     \* the attribute elements selected in Report._filter
    pc,             \* where the to_dataframe call is
    calls,          \* to_dataframe calls made so far
    limit_arg,      \* the limit argument of the call
    raw_size,       \* len(res.content) of the first page, as line 318 reads it
    paging,         \* _instance['data']['paging'] of the first page
    limit,          \* the local limit after line 315: the chunk limit
    it_total,       \* the local it_total
    later_total,    \* the total the pages after the first report in this call
    threads,        \* max_workers of the futures session
    table,          \* the pages parsed by the Parser p, in parse order
    tasks,          \* the futures of __fetch_chunks_future
    cursor,         \* the loop position: the next offset (sequential) or future (parallel)
    issued,         \* the chunk requests sent to the server, in order
    pbar_n,         \* n of the progress bar fetch_pbar: the updates it has shown
    pbar_rows,      \* the rows postfix of the progress bar
    error,          \* the offset of the fetch whose error the call raised
    path,           \* the branch the call took after the first page
    arrivals,       \* the offsets of the completed futures, in completion order
    returned,       \* the value the call returned
    previous,       \* Report._dataframe as the call found it
    stored,         \* Report.instance_id as the call found it
    config_verbose, \* config.verbose
    delivery_mode,  \* delivery.mode of each subscription, as execute finds it
    method,         \* the SubscriptionManager method called last
    stage,          \* where that call is
    passed,         \* its subscriptions argument, as passed
    force,          \* the force argument of delete
    subscriptions,  \* the local list subscriptions
    user_input,     \* the local user_input of delete: None while unbound
    succeeded,      \* the local succeeded of delete: None while unbound
    index,          \* the position of the loop over subscriptions
    remove_requests,    \* the remove_subscription requests sent, with their outcome
    executed,       \* the IDs of the subscriptions whose execute() was invoked, in order
    warned,         \* the IDs of the subscriptions execute warned about, in order
    body,           \* the body of the available_recipients request
    response,       \* the response to it
    result,         \* what the call returned: None before it returns
    raised,         \* the exception the call raised
    grid_attributes,    \* the attributes of the report definition: the number of elements of each
    attr_limit,     \* the limit the retrieval of the attribute elements is called with
    attr_elements,  \* Report._attr_elements
    attr_pc,        \* where the retrieval of the attribute elements is
    attr_index,     \* the position of its loop over the attributes
    attr_list,      \* its local list attr_elements
    attr_requests,  \* the element requests sent, in order
    attr_returned,  \* what the retrieval returned: None before it returns
    server_events,  \* the names of the events on the server, by ID
    api_getter,     \* Event._API_GETTERS[('id', 'name', 'description')]
    event_objects,  \* the Event objects constructed, in order
    event_args,     \* the arguments of the last Event(...) call
    event_raised    \* the exception the last Event(...) call raised

vars == <<total, grid_cross_tab, fault, instance_id, initial_limit, parallel,
          progress_bar, dataframe,
          cross_tab, definition_retrieved, cross_tab_filter, filter_sel, pc,
          calls, limit_arg, raw_size, paging, limit, it_total, later_total, threads,
          table, tasks, cursor, issued, pbar_n, pbar_rows, error, path, arrivals, returned, previous,
          stored,
          config_verbose, delivery_mode, method, stage, passed, force, subscriptions,
          user_input, succeeded, index, remove_requests, executed, warned, body,
          response, result, raised,
          grid_attributes, attr_limit, attr_elements, attr_pc, attr_index, attr_list,
          attr_requests, attr_returned,
          server_events, api_getter, event_objects, event_args, event_raised>>

elements_vars == <<grid_attributes, attr_limit, attr_elements, attr_pc, attr_index, attr_list,
                   attr_requests, attr_returned>>
event_vars == <<server_events, api_getter, event_objects, event_args, event_raised>>

vars_report == <<total, grid_cross_tab, fault, instance_id, initial_limit, parallel,
                 progress_bar, dataframe,
                 cross_tab, definition_retrieved, cross_tab_filter, filter_sel, pc,
                 calls, limit_arg, raw_size, paging, limit, it_total, later_total, threads,
                 table, tasks, cursor, issued, pbar_n, pbar_rows, error, path, arrivals,
                 returned, previous, stored>>

manager_call_vars == <<method, stage, passed, force, subscriptions, user_input, succeeded,
                       index, remove_requests, executed, warned, body, response, result,
                       raised>>
manager_vars == <<config_verbose, delivery_mode, manager_call_vars>>

definition_vars == <<cross_tab, definition_retrieved>>
filter_vars == <<cross_tab_filter, filter_sel>>
object_vars == <<instance_id, initial_limit, parallel, progress_bar, dataframe,
                 definition_vars, filter_vars>>
env_vars == <<total, grid_cross_tab, fault>>

\* ---- the server: an instance holds the rows of the report that pass the
\* view filter of the body it was made with (operator In), in their order
Unfiltered(f) == f = None \/ f[1] = {} \/ f[1] = {0, 1}

InstRows(f) ==
    IF Unfiltered(f) THEN total
    ELSE IF 0 \in f[1] THEN (total + 1) \div 2 ELSE total \div 2

\* the rows of one page of an instance made with view filter f
Page(f, offset, lim) ==
    [offset |-> offset, n |-> Max(0, Min(lim, InstRows(f) - offset))]

\* the rows at offsets a .. a + n - 1 of such an instance whose element is in S
KeptIn(f, a, n, S) ==
    IF Unfiltered(f)
    THEN LET even == (a + n + 1) \div 2 - (a + 1) \div 2 IN
         (IF 0 \in S THEN even ELSE 0) + (IF 1 \in S THEN n - even ELSE 0)
    ELSE IF f[1] \subseteq S THEN n ELSE 0

\* the total the pages after the first report: the total of the first page,
\* or another one on a server at fault
LaterTotal(tot) == IF fault = "inconsistent_total" THEN tot + 1 ELSE tot

\* ---- the parser
Parse(t, page) == Append(t, page)

RECURSIVE TableLen(_)
TableLen(t) == IF t = <<>> THEN 0 ELSE t[1].n + TableLen(Tail(t))

\* the source offset of row i (from 0) of table t, -1 when there is no such row
RECURSIVE RowAt(_, _)
RowAt(t, i) ==
    IF t = <<>> THEN -1
    ELSE IF i < t[1].n THEN t[1].offset + i
    ELSE RowAt(Tail(t), i - t[1].n)

\* lines 355-391, 421: the value stored and returned for the parsed table t of
\* an instance: with a cross-tab filter on attribute elements the rows whose
\* element is listed are selected from it
DataframeOf(t, inst) ==
    [pages |-> t, filter |-> inst[1].filter,
     keep |-> IF cross_tab_filter = None THEN None ELSE cross_tab_filter[1]]

RECURSIVE KeptLen(_, _, _)
KeptLen(t, f, S) ==
    IF t = <<>> THEN 0
    ELSE KeptIn(f, t[1].offset, t[1].n, S) + KeptLen(Tail(t), f, S)

\* len() of such a value
DfLen(df) ==
    IF df.keep = None THEN TableLen(df.pages)
    ELSE KeptLen(df.pages, df.filter, df.keep[1])

\* ---- the plan
\* line 314: are there rows beyond the first page
MoreRowsAlways(pg) == TRUE

MoreRows(pg) == pg.current # pg.total

\* the derived limit without its floor of MIN_CHUNK rows
ChunkLimitNoMin(l, il, size) ==
    IF Truthy(l) THEN l[1] ELSE MulDiv(il, SIZE_LIMIT, size)

\* lines 315-319: the limit of every chunk after the first page
ChunkLimit(l, il, size) ==
    IF Truthy(l) THEN l[1]
    ELSE Max(MIN_CHUNK, MulDiv(il, SIZE_LIMIT, size))

\* the quotient alone, without the chunk of the remainder
ItTotalFloor(tot, il, lim) == TruncDiv(tot - il, lim)

\* lines 321-323: the number of additional iterations
ItTotal(tot, il, lim) ==
    TruncDiv(tot - il, lim) + (IF (tot - il) % lim # 0 THEN 1 ELSE 0)

\* the thread count for n chunks on a machine whose cap is hint
GetParallelNumber(n, hint) == IF n > 0 THEN Min(n, hint) ELSE hint

\* the fan-out taken for a single chunk too
UseParallelFromOne(par, it) == par /\ it >= 1

\* line 325
UseParallel(par, it) == par /\ it > 1

\* a progress bar that counts nothing
PbarUpdateNone(n) == n

\* lines 333, 338, 343 and 442, 444, 449: update() of a progress bar made
\* with disable=(not self._progress_bar) adds one to its n unless disabled
PbarUpdate(n) == IF progress_bar THEN n + 1 ELSE n

\* lines 344-348 and 450-452: set_postfix(rows=...) of such a bar
PbarPostfix(rows) == IF progress_bar THEN rows ELSE pbar_rows

\* chunk fetches that go to the instance the call found stored, if any
ChunkInstanceStored(inst, old) == IF old # None THEN old ELSE inst

\* lines 336 and 352: the chunk fetches are given self.instance_id, which
\* line 306 has set from the first response
ChunkInstance(inst, old) == inst

Request(offset, lim, inst) == [offset |-> offset, limit |-> lim, instance |-> inst]

\* ---- SubscriptionManager: its inputs
\* the IDs of the subscriptions of the project
Ids == 1..MaxSubs
\* the delivery modes of a subscription
Modes == {"EMAIL", "FILE", "PRINTER", "HISTORY_LIST", "CACHE", "MOBILE", "FTP"}
\* lines 256-261: the modes execute goes on with
ExecutableModes == {"EMAIL", "FILE", "HISTORY_LIST", "FTP"}

SeqsUpTo(S, n) == UNION {[1..k -> S] : k \in 0..n}
\* a subscriptions argument: a list, or one item that is no list, of
\* Subscription objects or of IDs
SubscriptionArgs ==
    {[list |-> TRUE, items |-> [i \in DOMAIN s |-> [id |-> s[i], object |-> o]]] :
        s \in SeqsUpTo(Ids, MaxPassed) \ {<<>>}, o \in BOOLEAN}
    \cup {[list |-> TRUE, items |-> <<>>]}
    \cup {[list |-> FALSE, items |-> <<[id |-> i, object |-> o]>>] : i \in Ids, o \in BOOLEAN}
\* what the user types at the prompt of delete
Answers == {"Y", "N", "y"}
\* the arguments of available_recipients
ContentIds == {None, Some(1)}
ContentTypes == {None, Some("REPORT")}
Contents == {None, Some([id |-> 2, type |-> "DOCUMENT"])}
\* response.json()['recipients'] of the server
RecipientLists == {<<>>, <<"recipient">>}

\* a returned value: Python's None, or a value that is not None
PyNone == [none |-> TRUE, value |-> <<>>]
PyValue(v) == [none |-> FALSE, value |-> v]

\* no SubscriptionManager method has been called
ManagerIdle ==
    /\ method = "none"
    /\ stage = "idle"
    /\ passed = [list |-> TRUE, items |-> <<>>]
    /\ force = FALSE
    /\ subscriptions = <<>>
    /\ user_input = None
    /\ succeeded = None
    /\ index = 1
    /\ remove_requests = <<>>
    /\ executed = <<>>
    /\ warned = <<>>
    /\ body = None
    /\ response = None
    /\ result = None
    /\ raised = "none"

\* a project whose subscriptions are left alone
ManagerAtRest ==
    /\ config_verbose = TRUE
    /\ delivery_mode = [i \in Ids |-> "EMAIL"]
    /\ ManagerIdle

\* ---- the attribute elements of a report: their inputs
\* the attributes of a report: the number of elements of each, in the order
\* of the definition
AttributeLists == UNION {[1..k -> 0..MaxElements] : k \in 0..MaxAttrs}
\* the limit argument of the two retrievals
ElementLimits == 1..MaxElementLimit

\* the attribute elements were never asked for
ElementsIdle ==
    /\ attr_limit = 1
    /\ attr_elements = PyNone
    /\ attr_pc = "idle"
    /\ attr_index = 1
    /\ attr_list = <<>>
    /\ attr_requests = <<>>
    /\ attr_returned = None

\* a report without attributes whose elements are left alone
ElementsAtRest == grid_attributes = <<>> /\ ElementsIdle

\* ---- Event: its inputs
\* the names an event can have
EventNames == {"daily", "weekly"}
\* the events of a server: the name of each, by ID and in the order list_events
\* gives them
EventLists == UNION {[1..k -> EventNames] : k \in 0..MaxServerEvents}
\* connection.web_version, as version.parse reads it: the release numbers
WebVersions == {<<11, 3, 100>>, <<11, 3, 200>>, <<11, 3, 300>>}
\* line 98: version.parse('11.3.0200')
GETTER_VERSION == <<11, 3, 200>>

\* no Event was constructed
EventsIdle ==
    /\ api_getter = "unset"
    /\ event_objects = <<>>
    /\ event_args = None
    /\ event_raised = "none"

\* a server without events, and no Event constructed
EventsAtRest == server_events = <<>> /\ EventsIdle

\* the state after construction, but for the server's fault
InitObject ==
    /\ total \in Totals
    /\ grid_cross_tab \in BOOLEAN
    /\ cross_tab = FALSE
    /\ definition_retrieved = FALSE
    /\ cross_tab_filter = None
    /\ filter_sel = None
    /\ instance_id = None
    /\ initial_limit = DEFAULT_INITIAL_LIMIT
    /\ parallel \in BOOLEAN
    /\ progress_bar \in BOOLEAN
    /\ dataframe = None
    /\ pc = "idle"
    /\ calls = 0
    /\ limit_arg = None
    /\ raw_size = 0
    /\ paging = [current |-> 0, total |-> 0]
    /\ limit = 0
    /\ it_total = 0
    /\ later_total = 0
    /\ threads = 0
    /\ table = <<>>
    /\ tasks = <<>>
    /\ cursor = 0
    /\ issued = <<>>
    /\ pbar_n = 0
    /\ pbar_rows = 0
    /\ error = None
    /\ path = "none"
    /\ arrivals = <<>>
    /\ returned = None
    /\ previous = None
    /\ stored = None

\* a report on a server whose responses are well-formed
Init == InitObject /\ fault = "none" /\ ManagerAtRest /\ ElementsAtRest /\ EventsAtRest

\* a report on a server whose responses may be malformed
FaultInit ==
    InitObject /\ fault \in Faults /\ ManagerAtRest /\ ElementsAtRest /\ EventsAtRest

\* ---- the two loops run over range(initial_limit, total, limit)
ChunkOffsets(il, tot, lim) == Range(il, tot, lim)

\* the step of that range taken to be the initial limit
NextOffsetInitial(offset, lim) == offset + initial_limit

\* a range that starts at the first row
LoopStartZero(il) == 0

\* line 445: the range starts at the initial limit, after the first page
LoopStart(il) == il

\* a loop that also ends where the progress bar is disabled
LoopDoneIfNoBar(offset, tot) == offset >= tot \/ ~progress_bar

\* line 445: the range is exhausted at the first offset that is not below the total
LoopDone(offset, tot) == offset >= tot

\* line 445: the offset after offset in the range
NextOffset(offset, lim) == offset + lim

\* the futures list starting at the chunk limit instead of the initial limit
FuturesFromLimit(il, tot, lim) ==
    [k \in 1..Len(ChunkOffsets(lim, tot, lim)) |->
        [offset |-> ChunkOffsets(lim, tot, lim)[k], st |-> "queued"]]

\* lines 423-436: the futures of __fetch_chunks_future, in submission order
Futures(il, tot, lim) ==
    [k \in 1..Len(ChunkOffsets(il, tot, lim)) |->
        [offset |-> ChunkOffsets(il, tot, lim)[k], st |-> "queued"]]

Finished(ts) == \A k \in DOMAIN ts : ts[k].st \in {"ok", "fail"}
Running(ts) == {k \in DOMAIN ts : ts[k].st = "running"}
Queued(ts) == {k \in DOMAIN ts : ts[k].st = "queued"}
Failed(ts) == {k \in DOMAIN ts : ts[k].st = "fail"}

\* the future taken by the pass number cur of the driving loop, were the loop
\* to run over the futures as they complete
MergeNextArrival(ts, cur) ==
    IF cur <= Len(arrivals)
    THEN CHOOSE k \in DOMAIN ts : ts[k].offset = arrivals[cur]
    ELSE 0

\* line 339: the loop runs over the list of futures in its order
MergeNext(ts, cur) == cur

\* len(range(start, stop, step)) for step > 0
RangeLen(start, stop, step) ==
    IF start >= stop THEN 0 ELSE (stop - start + step - 1) \div step

\* the chunks a call with these arguments asks for after the first page of an
\* instance of tot rows
PlannedChunks(l, il, size, tot) ==
    IF Min(il, tot) = tot THEN 0
    ELSE RangeLen(il, tot, ChunkLimit(l, il, size))

\* line 473: the instance the server makes for the body of the current filter
\* a stored instance asked for the chunk after the first page
StoredFirstPageNext(f, il) == Page(f, il, il)

\* lines 298-300: the first chunk of a stored instance
StoredFirstPage(f, il) == Page(f, 0, il)

NewInstance == Some([n |-> calls, filter |-> filter_sel])

\* lines 565-618 and 828-831: the definition is asked for once
RetrieveDefinition ==
    /\ definition_retrieved' = TRUE
    /\ cross_tab' = IF definition_retrieved THEN cross_tab ELSE grid_cross_tab

\* to_dataframe is entered: lines 289-290. The call is taken when its plan
\* stays within MaxChunks chunks.
Call(l) ==
    /\ pc \in {"idle", "done", "failed"}
    /\ calls < MaxCalls
    /\ LET il == IF Truthy(l) THEN l[1] ELSE initial_limit IN
        /\ \A size \in RawSizes, inst \in {instance_id, NewInstance} \ {None} :
            PlannedChunks(l, il, size, InstRows(inst[1].filter)) <= MaxChunks
        /\ initial_limit' = il
    /\ calls' = calls + 1
    /\ limit_arg' = l
    /\ pc' = "first"
    /\ paging' = [current |-> 0, total |-> 0]
    /\ limit' = 0
    /\ it_total' = 0
    /\ later_total' = 0
    /\ raw_size' = 0
    /\ threads' = 0
    /\ table' = <<>>
    /\ tasks' = <<>>
    /\ cursor' = 0
    /\ issued' = <<>>
    /\ pbar_n' = 0
    /\ pbar_rows' = 0
    /\ error' = None
    /\ path' = "none"
    /\ arrivals' = <<>>
    /\ returned' = None
    /\ previous' = dataframe
    /\ stored' = instance_id
    /\ UNCHANGED <<event_vars, elements_vars, manager_vars, env_vars, instance_id, parallel, progress_bar, dataframe, definition_vars,
                   filter_vars>>

\* lines 292-311: the first response arrives; the instance id and the paging
\* are read from it and the parser is given its rows; res.json() of line 305
\* raises on a body of no bytes. A stored instance is
\* asked for its first chunk; a report without an instance, or whose stored
\* instance raises HTTPError, is initialized with the body of its filter,
\* which asks for the definition where it was not retrieved yet.
FirstResponse ==
    /\ fault # "empty_body"
    /\ \/ /\ instance_id # None
          /\ instance_id' = instance_id
          /\ table' = Parse(<<>>, StoredFirstPage(instance_id[1].filter, initial_limit))
          /\ UNCHANGED definition_vars
       \/ /\ instance_id' = NewInstance
          /\ table' = Parse(<<>>, Page(filter_sel, 0, initial_limit))
          /\ RetrieveDefinition
    /\ LET f == instance_id'[1].filter IN
        paging' = [current |-> Min(initial_limit, InstRows(f)),
                   total |-> IF fault = "negative_total" THEN -1 ELSE InstRows(f)]

\* a call that stores the pages parsed so far when a fetch raises
StoredPartial(df, t, inst) == Some(DataframeOf(t, inst))

\* lines 340-342, 446-448 and 355: an error of a chunk fetch leaves
\* to_dataframe before line 355, the one assignment of _dataframe from the parser
StoredAfterFailure(df, t, inst) == df

\* lines 292-302 raise: the first request fails and the call ends with its error
FirstPageFail ==
    /\ pc = "first"
    /\ pc' = "failed"
    /\ error' = Some(0)
    /\ \/ UNCHANGED definition_vars
       \/ RetrieveDefinition
    /\ UNCHANGED <<event_vars, elements_vars, manager_vars, env_vars, instance_id, initial_limit, parallel, progress_bar, dataframe,
                   filter_vars, calls, limit_arg, raw_size, paging, limit,
                   it_total, later_total, threads, table, tasks, cursor, issued, pbar_n, pbar_rows,
                   path, arrivals, returned, previous, stored>>

\* lines 292-314 and 355, 421: the first page holds every row
FirstPageSingle ==
    /\ pc = "first"
    /\ FirstResponse
    /\ ~MoreRows(paging')
    /\ path' = "single"
    /\ raw_size' = raw_size
    /\ dataframe' = Some(DataframeOf(table', instance_id'))
    /\ returned' = dataframe'
    /\ pc' = "done"
    /\ UNCHANGED <<event_vars, elements_vars, manager_vars, env_vars, initial_limit, parallel, progress_bar, filter_vars, calls, limit_arg,
                   limit, it_total,
                   later_total, threads, tasks, cursor, issued, pbar_n, pbar_rows, error, arrivals, previous, stored>>

\* lines 292-338 and 351-352, 441-444: more rows remain; the plan is computed
\* and one of the two paths is entered
FirstPagePlan ==
    /\ pc = "first"
    /\ FirstResponse
    /\ MoreRows(paging')
    /\ IF Truthy(limit_arg) THEN raw_size' = raw_size ELSE raw_size' \in RawSizes
    /\ limit' = ChunkLimit(limit_arg, initial_limit, raw_size')
    /\ it_total' = ItTotal(paging'.total, initial_limit, limit')
    /\ later_total' = LaterTotal(paging'.total)
    /\ IF UseParallel(parallel, it_total')
       THEN /\ pc' = "par"
            /\ path' = "par"
            /\ \E hint \in 1..MaxWorkers : threads' = GetParallelNumber(it_total', hint)
            /\ tasks' = Futures(initial_limit, paging'.total, limit')
            /\ cursor' = 1
       ELSE /\ pc' = "seq"
            /\ path' = "seq"
            /\ threads' = 0
            /\ tasks' = <<>>
            /\ cursor' = LoopStart(initial_limit)
    /\ pbar_n' = PbarUpdate(0)
    /\ pbar_rows' = 0
    /\ UNCHANGED <<event_vars, elements_vars, manager_vars, env_vars, initial_limit, parallel, progress_bar, dataframe, filter_vars, calls,
                   limit_arg, issued, error, arrivals, returned, previous, stored>>

\* lines 445-453: one iteration of __fetch_chunks whose request succeeds
SeqFetch ==
    /\ pc = "seq"
    /\ ~LoopDone(cursor, paging.total)
    /\ issued' = Append(issued, Request(cursor, limit, ChunkInstance(instance_id, stored)))
    /\ table' = Parse(table, Page(instance_id[1].filter, cursor, limit))
    /\ pbar_n' = PbarUpdate(pbar_n)
    /\ pbar_rows' = PbarPostfix(Min(cursor + limit, paging.total))
    /\ cursor' = NextOffset(cursor, limit)
    /\ UNCHANGED <<event_vars, elements_vars, manager_vars, env_vars, object_vars, pc, calls, limit_arg, raw_size, paging, limit,
                   it_total, later_total, threads, tasks, error,
                   path, arrivals, returned, previous, stored>>

\* the error of the request caught and the loop carried on
SeqFetchFailSwallow ==
    /\ pc = "seq"
    /\ ~LoopDone(cursor, paging.total)
    /\ issued' = Append(issued, Request(cursor, limit, ChunkInstance(instance_id, stored)))
    /\ error' = Some(cursor)
    /\ cursor' = NextOffset(cursor, limit)
    /\ UNCHANGED <<event_vars, elements_vars, manager_vars, env_vars, object_vars, pc, calls, limit_arg, raw_size, paging, limit,
                   it_total, later_total, threads, table, tasks, pbar_n, pbar_rows,
                   path, arrivals, returned, previous, stored>>

\* lines 446-448: the request of __get_chunk raises and to_dataframe ends
SeqFetchFail ==
    /\ pc = "seq"
    /\ ~LoopDone(cursor, paging.total)
    /\ issued' = Append(issued, Request(cursor, limit, ChunkInstance(instance_id, stored)))
    /\ error' = Some(cursor)
    /\ pc' = "failed"
    /\ dataframe' = StoredAfterFailure(dataframe, table, instance_id)
    /\ UNCHANGED <<event_vars, elements_vars, manager_vars, env_vars, instance_id, initial_limit, parallel, progress_bar,
                   definition_vars, filter_vars, calls, limit_arg, raw_size, paging, limit,
                   it_total, later_total, threads, table, tasks, cursor, pbar_n, pbar_rows,
                   path, arrivals, returned, previous, stored>>

\* lines 445 and 355, 421: the range is exhausted; the parsed table is stored
\* and returned
SeqExit ==
    /\ pc = "seq"
    /\ LoopDone(cursor, paging.total)
    /\ dataframe' = Some(DataframeOf(table, instance_id))
    /\ returned' = dataframe'
    /\ pc' = "done"
    /\ UNCHANGED <<event_vars, elements_vars, manager_vars, env_vars, instance_id, initial_limit, parallel, progress_bar, definition_vars,
                   filter_vars, calls, limit_arg,
                   raw_size, paging, limit, it_total, later_total, threads, table,
                   tasks, cursor, issued, pbar_n, pbar_rows, error, path, arrivals, previous, stored>>

\* a pool that starts a queued future whatever the number of running ones
CanStartAlways(ts, n) == TRUE

\* lines 327-329: the session runs its futures on a pool of max_workers
\* threads, so a queued future starts only while fewer than that many run
CanStart(ts, n) == Cardinality(Running(ts)) < n

\* a worker of the session takes the oldest queued future and sends its request
WorkerStart ==
    /\ pc \in {"par", "drain"}
    /\ Queued(tasks) # {}
    /\ CanStart(tasks, threads)
    /\ LET k == CHOOSE q \in Queued(tasks) : \A r \in Queued(tasks) : q <= r IN
        /\ tasks' = [tasks EXCEPT ![k].st = "running"]
        /\ issued' = Append(issued, Request(tasks[k].offset, limit,
                                                ChunkInstance(instance_id, stored)))
    /\ UNCHANGED <<event_vars, elements_vars, manager_vars, env_vars, object_vars, pc, calls, limit_arg, raw_size, paging, limit,
                   it_total, later_total, threads, table, cursor, pbar_n, pbar_rows, error,
                   path, arrivals, returned, previous, stored>>

\* a worker that parses the page it fetched
WorkerDeliverParse(t, page) == Parse(t, page)

\* lines 426-434: a future is given the session, the connection, the ids, an
\* offset and a limit, and not the parser: its page stays in its result
WorkerDeliver(t, page) == t

\* a running request completes, with a page or with an error
WorkerDone(k) ==
    /\ pc \in {"par", "drain"}
    /\ k \in Running(tasks)
    /\ \E outcome \in {"ok", "fail"} :
        /\ tasks' = [tasks EXCEPT ![k].st = outcome]
        /\ table' = IF outcome = "ok"
                    THEN WorkerDeliver(table, Page(instance_id[1].filter,
                                                   tasks[k].offset, limit))
                    ELSE table
    /\ arrivals' = Append(arrivals, tasks[k].offset)
    /\ UNCHANGED <<event_vars, elements_vars, manager_vars, env_vars, object_vars, pc, calls, limit_arg, raw_size, paging, limit,
                   it_total, later_total, threads, cursor, issued, pbar_n, pbar_rows, error,
                   path, returned, previous, stored>>

\* lines 339-349: the driving thread takes the result of the next future of the
\* list and parses it
ParMerge ==
    /\ pc = "par"
    /\ cursor <= Len(tasks)
    /\ LET k == MergeNext(tasks, cursor) IN
        /\ k \in DOMAIN tasks
        /\ tasks[k].st = "ok"
        /\ table' = Parse(table, Page(instance_id[1].filter, tasks[k].offset, limit))
    /\ pbar_n' = PbarUpdate(pbar_n)
    /\ pbar_rows' = PbarPostfix(Min(initial_limit + cursor * limit, paging.total))
    /\ cursor' = cursor + 1
    /\ UNCHANGED <<event_vars, elements_vars, manager_vars, env_vars, object_vars, pc, calls, limit_arg, raw_size, paging, limit,
                   it_total, later_total, threads, tasks, issued, error,
                   path, arrivals, returned, previous, stored>>

\* the response that is not ok passed over
ParMergeFailSkip ==
    /\ pc = "par"
    /\ cursor <= Len(tasks)
    /\ LET k == MergeNext(tasks, cursor) IN
        /\ k \in DOMAIN tasks
        /\ tasks[k].st = "fail"
    /\ cursor' = cursor + 1
    /\ UNCHANGED <<event_vars, elements_vars, manager_vars, env_vars, object_vars, pc, calls, limit_arg, raw_size, paging, limit,
                   it_total, later_total, threads, table, tasks, issued, pbar_n, pbar_rows, error,
                   path, arrivals, returned, previous, stored>>

\* lines 340-342: the next future of the list holds an error, which is raised
ParMergeFail ==
    /\ pc = "par"
    /\ cursor <= Len(tasks)
    /\ LET k == MergeNext(tasks, cursor) IN
        /\ k \in DOMAIN tasks
        /\ tasks[k].st = "fail"
        /\ error' = Some(tasks[k].offset)
    /\ pc' = "drain"
    /\ dataframe' = StoredAfterFailure(dataframe, table, instance_id)
    /\ UNCHANGED <<event_vars, elements_vars, manager_vars, env_vars, instance_id, initial_limit, parallel, progress_bar,
                   definition_vars, filter_vars, calls, limit_arg, raw_size, paging, limit,
                   it_total, later_total, threads, table, tasks, cursor, issued, pbar_n, pbar_rows,
                   path, arrivals, returned, previous, stored>>

\* line 327: the session is left with the error pending; its executor is shut
\* down, which waits for every submitted future, and the error leaves
\* to_dataframe
SessionAbort ==
    /\ pc = "drain"
    /\ Finished(tasks)
    /\ pc' = "failed"
    /\ UNCHANGED <<event_vars, elements_vars, manager_vars, env_vars, object_vars, calls, limit_arg, raw_size, paging, limit,
                   it_total, later_total, threads, table, tasks, cursor, issued, pbar_n, pbar_rows,
                   error, path, arrivals, returned, previous, stored>>

\* lines 339, 350 and 355, 421: every future was consumed; the parsed table is
\* stored and returned
ParExit ==
    /\ pc = "par"
    /\ cursor > Len(tasks)
    /\ dataframe' = Some(DataframeOf(table, instance_id))
    /\ returned' = dataframe'
    /\ pc' = "done"
    /\ UNCHANGED <<event_vars, elements_vars, manager_vars, env_vars, instance_id, initial_limit, parallel, progress_bar, definition_vars,
                   filter_vars, calls, limit_arg,
                   raw_size, paging, limit, it_total, later_total, threads, table,
                   tasks, cursor, issued, pbar_n, pbar_rows, error, path, arrivals, previous, stored>>

\* run-time state of the last call, which the operations between calls leave
call_vars == <<pc, calls, limit_arg, raw_size, paging, limit, it_total, later_total,
               threads, table, tasks, cursor, issued, pbar_n, pbar_rows, error, path, arrivals,
               returned, previous, stored>>

\* lines 800-804: the attributes of the report are read, which asks for the
\* definition where it was not retrieved yet
GetDefinition ==
    /\ pc \in {"idle", "done", "failed"}
    /\ calls < MaxCalls
    /\ ~definition_retrieved
    /\ RetrieveDefinition
    /\ UNCHANGED <<event_vars, elements_vars, manager_vars, env_vars, instance_id, initial_limit, parallel, progress_bar, dataframe,
                   filter_vars, call_vars>>

\* an instance kept through a change of the filter
InstanceKept(inst) == inst

\* lines 536 and 563: the instance is dropped, to generate a new one with the
\* new filter
InstanceCleared(inst) == None

\* lines 494-536 and 550-552: apply_filters(attr_elements=ae). On a report
\* known to be cross-tab the arguments are kept for the returned table; on
\* another report the elements are selected in the filter, whose first use
\* asks for the definition, and the instance is dropped.
ApplyFilters(ae) ==
    /\ pc \in {"idle", "done", "failed"}
    /\ calls < MaxCalls
    /\ IF cross_tab
       THEN /\ cross_tab_filter' = Some(ae)
            /\ UNCHANGED <<instance_id, definition_vars, filter_sel>>
       ELSE IF ae # None
       THEN /\ RetrieveDefinition
            /\ filter_sel' = ae
            /\ instance_id' = InstanceCleared(instance_id)
            /\ UNCHANGED cross_tab_filter
       ELSE UNCHANGED <<instance_id, definition_vars, filter_vars>>
    /\ UNCHANGED <<event_vars, elements_vars, manager_vars, env_vars, initial_limit, parallel, progress_bar, dataframe, call_vars>>

\* lines 554-563: clear_filters. The filter, whose first use asks for the
\* definition, selects every element again and the instance is dropped; the
\* arguments kept for the table of a cross-tab report stay
ClearFilters ==
    /\ pc \in {"idle", "done", "failed"}
    /\ calls < MaxCalls
    /\ RetrieveDefinition
    /\ filter_sel' = None
    /\ instance_id' = InstanceCleared(instance_id)
    /\ UNCHANGED cross_tab_filter
    /\ UNCHANGED <<event_vars, elements_vars, manager_vars, env_vars, initial_limit, parallel, progress_bar, dataframe, call_vars>>

Next ==
    \/ \E l \in LimitArgs : Call(l)
    \/ GetDefinition
    \/ \E ae \in FilterArgs : ApplyFilters(ae)
    \/ ClearFilters
    \/ FirstPageFail
    \/ FirstPageSingle
    \/ FirstPagePlan
    \/ SeqFetch
    \/ SeqFetchFail
    \/ SeqExit
    \/ WorkerStart
    \/ \E k \in 1..MaxChunks : WorkerDone(k)
    \/ ParMerge
    \/ ParMergeFail
    \/ SessionAbort
    \/ ParExit

Spec == Init /\ [][Next]_vars

\* the same program on a server whose responses may be malformed
FaultSpec == FaultInit /\ [][Next]_vars

\* a report made with parallel=False, which fetches by the sequential loop
SeqInit == Init /\ ~parallel

SeqNext ==
    \/ \E l \in LimitArgs : Call(l)
    \/ GetDefinition
    \/ \E ae \in FilterArgs : ApplyFilters(ae)
    \/ ClearFilters
    \/ FirstPageFail
    \/ FirstPageSingle
    \/ FirstPagePlan
    \/ SeqFetch
    \/ SeqFetchFail
    \/ SeqExit

\* every request of the loop returns, with a page or with an error, and the
\* thread that runs the loop keeps running
SeqSpec ==
    /\ SeqInit /\ [][SeqNext]_vars
    /\ WF_vars(SeqFetch \/ SeqFetchFail)
    /\ WF_vars(SeqExit)

\* ---- SubscriptionManager
\* the manager keeps nothing between its calls: one call is followed from
\* the state no call has touched
Resting == stage = "idle"

\* lines 185-187 and 246-248: an argument that is no list is made a list of one
AsList(arg) == arg.items

\* lines 193-198 and 250-255: an ID is made a Subscription object
ToSubscription(item) == [id |-> item.id, object |-> TRUE]

IdsOf(items) == [i \in DOMAIN items |-> items[i].id]

\* lines 227-228: the response that is ok is counted
Counted(n, ok) == IF ok THEN n + 1 ELSE n

\* a loop that goes on with a subscription of any delivery mode
CanExecuteAny(mode) == TRUE

\* lines 256-261: the delivery modes execute goes on with
CanExecute(mode) == mode \in ExecutableModes

\* lines 327-328: the recipients are returned for a response that is ok while
\* config.verbose is set; the function ends without a return otherwise
RecipientsOf(ok, recipients) ==
    IF ok /\ config_verbose THEN PyValue(recipients) ELSE PyNone

\* lines 185-214 of delete: the argument is made a list; an empty list with
\* config.verbose set is logged and line 235 then reads succeeded, which no
\* line has bound; otherwise the items are made Subscription objects and,
\* without force, the user is asked
DeleteCall(arg, f) ==
    /\ Resting
    /\ method' = "delete"
    /\ passed' = arg
    /\ force' = f
    /\ index' = 1
    /\ remove_requests' = <<>>
    /\ executed' = <<>>
    /\ warned' = <<>>
    /\ body' = None
    /\ response' = None
    /\ result' = None
    /\ IF AsList(arg) = <<>> /\ config_verbose
       THEN /\ subscriptions' = AsList(arg)
            /\ succeeded' = None
            /\ user_input' = None
            /\ raised' = "UnboundLocalError"
            /\ stage' = "raised"
       ELSE /\ subscriptions' = [i \in DOMAIN AsList(arg) |-> ToSubscription(AsList(arg)[i])]
            /\ succeeded' = Some(0)
            /\ user_input' = Some("N")
            /\ raised' = "none"
            /\ stage' = IF f THEN "removing" ELSE "prompt"
    /\ UNCHANGED <<event_vars, elements_vars, vars_report, config_verbose, delivery_mode>>

\* line 214: user_input == 'Y'
Confirmed(answer) == answer = "Y"

\* lines 211-214 and 235: the user answers; any answer but 'Y' skips the loop
\* and the call returns
DeleteAnswer(answer) ==
    /\ method = "delete"
    /\ stage = "prompt"
    /\ user_input' = Some(answer)
    /\ IF Confirmed(answer)
       THEN /\ stage' = "removing"
            /\ result' = result
       ELSE /\ stage' = "returned"
            /\ result' = Some(PyValue(succeeded[1] = Len(subscriptions)))
    /\ UNCHANGED <<event_vars, elements_vars, vars_report, config_verbose, delivery_mode, method, passed, force,
                   subscriptions, succeeded, index, remove_requests, executed, warned,
                   body, response, raised>>

\* lines 216-233: the remove request of the next subscription is answered
DeleteRemove ==
    /\ method = "delete"
    /\ stage = "removing"
    /\ index <= Len(subscriptions)
    /\ \E ok \in BOOLEAN :
        /\ remove_requests' = Append(remove_requests,
                                     [id |-> subscriptions[index].id, ok |-> ok])
        /\ succeeded' = Some(Counted(succeeded[1], ok))
    /\ index' = index + 1
    /\ UNCHANGED <<event_vars, elements_vars, vars_report, config_verbose, delivery_mode, method, stage, passed, force,
                   subscriptions, user_input, executed, warned, body, response, result,
                   raised>>

\* line 235: the loop is over
DeleteReturn ==
    /\ method = "delete"
    /\ stage = "removing"
    /\ index > Len(subscriptions)
    /\ stage' = "returned"
    /\ result' = Some(PyValue(succeeded[1] = Len(subscriptions)))
    /\ UNCHANGED <<event_vars, elements_vars, vars_report, config_verbose, delivery_mode, method, passed, force,
                   subscriptions, user_input, succeeded, index, remove_requests, executed,
                   warned, body, response, raised>>

\* lines 243-248 of execute: an empty argument with config.verbose set is
\* logged and the call returns; otherwise the argument is made a list. The
\* delivery modes are those the subscriptions have when the call is made
ExecuteCall(arg, modes) ==
    /\ Resting
    /\ delivery_mode' = modes
    /\ method' = "execute"
    /\ passed' = arg
    /\ force' = FALSE
    /\ user_input' = None
    /\ succeeded' = None
    /\ index' = 1
    /\ remove_requests' = <<>>
    /\ executed' = <<>>
    /\ warned' = <<>>
    /\ body' = None
    /\ response' = None
    /\ raised' = "none"
    /\ IF arg.items = <<>> /\ config_verbose
       THEN /\ subscriptions' = arg.items
            /\ stage' = "returned"
            /\ result' = Some(PyNone)
       ELSE /\ subscriptions' = AsList(arg)
            /\ stage' = "executing"
            /\ result' = None
    /\ UNCHANGED <<event_vars, elements_vars, vars_report, config_verbose>>

\* lines 249-269: the next subscription is executed when its delivery mode is
\* one of the four, and warned about otherwise
ExecuteStep ==
    /\ method = "execute"
    /\ stage = "executing"
    /\ index <= Len(subscriptions)
    /\ LET subscription == ToSubscription(subscriptions[index])
       IN  IF CanExecute(delivery_mode[subscription.id])
           THEN /\ executed' = Append(executed, subscription.id)
                /\ warned' = warned
           ELSE /\ warned' = Append(warned, subscription.id)
                /\ executed' = executed
    /\ index' = index + 1
    /\ UNCHANGED <<event_vars, elements_vars, vars_report, config_verbose, delivery_mode, method, stage, passed, force,
                   subscriptions, user_input, succeeded, remove_requests, body, response,
                   result, raised>>

\* the loop of execute is over and the function ends
ExecuteReturn ==
    /\ method = "execute"
    /\ stage = "executing"
    /\ index > Len(subscriptions)
    /\ stage' = "returned"
    /\ result' = Some(PyNone)
    /\ UNCHANGED <<event_vars, elements_vars, vars_report, config_verbose, delivery_mode, method, passed, force,
                   subscriptions, user_input, succeeded, index, remove_requests, executed,
                   warned, body, response, raised>>

\* lines 309-325 of available_recipients: the content is taken from the ID and
\* the type when both are given, from the Content object otherwise, and with
\* neither a ValueError is raised; the request is sent
AvailableRecipientsCall(content_id, content_type, content) ==
    /\ Resting
    /\ method' = "available_recipients"
    /\ passed' = [list |-> TRUE, items |-> <<>>]
    /\ force' = FALSE
    /\ subscriptions' = <<>>
    /\ user_input' = None
    /\ succeeded' = None
    /\ index' = 1
    /\ remove_requests' = <<>>
    /\ executed' = <<>>
    /\ warned' = <<>>
    /\ response' = None
    /\ result' = None
    /\ IF content_id # None /\ content_type # None
       THEN /\ body' = Some([id |-> content_id[1], type |-> content_type[1]])
            /\ raised' = "none"
            /\ stage' = "requesting"
       ELSE IF content # None
       THEN /\ body' = Some([id |-> content[1].id, type |-> content[1].type])
            /\ raised' = "none"
            /\ stage' = "requesting"
       ELSE /\ body' = None
            /\ raised' = "ValueError"
            /\ stage' = "raised"
    /\ UNCHANGED <<event_vars, elements_vars, vars_report, config_verbose, delivery_mode>>

\* lines 323-328: the response arrives and the call returns
AvailableRecipientsResponse ==
    /\ method = "available_recipients"
    /\ stage = "requesting"
    /\ \E ok \in BOOLEAN, recipients \in RecipientLists :
        /\ response' = Some([ok |-> ok, recipients |-> recipients])
        /\ result' = Some(RecipientsOf(ok, recipients))
    /\ stage' = "returned"
    /\ UNCHANGED <<event_vars, elements_vars, vars_report, config_verbose, delivery_mode, method, passed, force,
                   subscriptions, user_input, succeeded, index, remove_requests, executed,
                   warned, body, raised>>

\* a report that is left alone, made with the defaults of its constructor
ReportAtRest ==
    /\ InitObject
    /\ fault = "none"
    /\ total = 0
    /\ ~grid_cross_tab
    /\ parallel
    /\ progress_bar

\* a SubscriptionManager of a project, with either setting of config.verbose
ManagerInit ==
    /\ ReportAtRest
    /\ config_verbose \in BOOLEAN
    /\ delivery_mode = [i \in Ids |-> "EMAIL"]
    /\ ManagerIdle
    /\ ElementsAtRest
    /\ EventsAtRest

ManagerNext ==
    \/ Resting /\ \E arg \in SubscriptionArgs, f \in BOOLEAN : DeleteCall(arg, f)
    \/ \E answer \in Answers : DeleteAnswer(answer)
    \/ DeleteRemove
    \/ DeleteReturn
    \/ Resting /\ \E arg \in SubscriptionArgs, modes \in [Ids -> Modes] :
        ExecuteCall(arg, modes)
    \/ ExecuteStep
    \/ ExecuteReturn
    \/ Resting /\ \E content_id \in ContentIds, content_type \in ContentTypes,
                      content \in Contents :
        AvailableRecipientsCall(content_id, content_type, content)
    \/ AvailableRecipientsResponse

ManagerSpec == ManagerInit /\ [][ManagerNext]_vars

\* ---- the attribute elements of a report
\* the elements of an attribute of n elements are 0 .. n - 1; a request for
\* them at an offset with a limit is answered with those of the window
ElementPage(n, offset, lim) ==
    [k \in 1..Max(0, Min(lim, n - offset)) |-> offset + k - 1]

\* lines 644-652 and 706-714: the pages at the offsets are fetched in turn and
\* the list of elements is extended with each
RECURSIVE ExtendPages(_, _, _, _)
ExtendPages(elements, n, offsets, lim) ==
    IF offsets = <<>> THEN elements
    ELSE ExtendPages(elements \o ElementPage(n, Head(offsets), lim), n, Tail(offsets), lim)

\* lines 630-652 and 703-714: the first page, whose header gives the total,
\* and the pages of range(limit, total, limit)
FetchForAttribute(n, lim) ==
    ExtendPages(ElementPage(n, 0, lim), n, Range(lim, n, lim), lim)

\* lines 655-659 and 716-722: the entry of an attribute
AttributeEntry(i, elements) == [attribute_id |-> i, elements |-> elements]

ElementRequest(i, offset) == [attribute_id |-> i, offset |-> offset]

\* lines 727-739: the first chunk of every attribute is asked for
FirstChunkRequests(attrs) == [i \in DOMAIN attrs |-> ElementRequest(i, 0)]

\* lines 644-651 and 706-713: the requests of the later pages of attribute i
LaterRequests(i, n, lim) ==
    [k \in DOMAIN Range(lim, n, lim) |-> ElementRequest(i, Range(lim, n, lim)[k])]

\* lines 812-824, 663-674 and 682-689: attr_elements is read on a report
\* whose elements were not retrieved. The definition is asked for; with
\* _parallel the asynchronous retrieval is called, which sends the first
\* request of every attribute, and otherwise the sequential one. Without
\* attributes the sequential one returns its empty list at line 674, and the
\* asynchronous one, whose return of line 725 is inside the if of line 683,
\* ends without a return
AttrElementsCall(lim) ==
    /\ attr_pc = "idle"
    /\ RetrieveDefinition
    /\ attr_limit' = lim
    /\ attr_index' = 1
    /\ attr_list' = <<>>
    /\ IF grid_attributes = <<>>
       THEN /\ attr_elements' = IF parallel THEN PyNone ELSE PyValue(<<>>)
            /\ attr_returned' = Some(attr_elements')
            /\ attr_requests' = <<>>
            /\ attr_pc' = "returned"
       ELSE /\ attr_elements' = attr_elements
            /\ attr_returned' = None
            /\ attr_requests' = IF parallel THEN FirstChunkRequests(grid_attributes) ELSE <<>>
            /\ attr_pc' = IF parallel THEN "async" ELSE "seq"
    /\ UNCHANGED <<event_vars, manager_vars, env_vars, instance_id, initial_limit, parallel,
                   progress_bar, dataframe, filter_vars, call_vars, grid_attributes>>

\* lines 627-661 and 671: the elements of the next attribute are fetched
SeqAttribute ==
    /\ attr_pc = "seq"
    /\ attr_index <= Len(grid_attributes)
    /\ LET n == grid_attributes[attr_index] IN
        /\ attr_list' = Append(attr_list,
                               AttributeEntry(attr_index, FetchForAttribute(n, attr_limit)))
        /\ attr_requests' = attr_requests \o <<ElementRequest(attr_index, 0)>>
                                \o LaterRequests(attr_index, n, attr_limit)
    /\ attr_index' = attr_index + 1
    /\ UNCHANGED <<event_vars, manager_vars, vars_report, grid_attributes, attr_limit,
                   attr_elements, attr_pc, attr_returned>>

\* lines 672-674 and 824-826: the list is returned and kept
SeqAttrReturn ==
    /\ attr_pc = "seq"
    /\ attr_index > Len(grid_attributes)
    /\ attr_elements' = PyValue(attr_list)
    /\ attr_returned' = Some(attr_elements')
    /\ attr_pc' = "returned"
    /\ UNCHANGED <<event_vars, manager_vars, vars_report, grid_attributes, attr_limit,
                   attr_index, attr_list, attr_requests>>

\* lines 696-722: the first page of the next attribute is taken from its
\* future and the later pages are fetched
AsyncAttribute ==
    /\ attr_pc = "async"
    /\ attr_index <= Len(grid_attributes)
    /\ LET n == grid_attributes[attr_index] IN
        /\ attr_list' = Append(attr_list,
                               AttributeEntry(attr_index, FetchForAttribute(n, attr_limit)))
        /\ attr_requests' = attr_requests \o LaterRequests(attr_index, n, attr_limit)
    /\ attr_index' = attr_index + 1
    /\ UNCHANGED <<event_vars, manager_vars, vars_report, grid_attributes, attr_limit,
                   attr_elements, attr_pc, attr_returned>>

\* lines 723-725 and 820-826: the list is returned and kept
AsyncAttrReturn ==
    /\ attr_pc = "async"
    /\ attr_index > Len(grid_attributes)
    /\ attr_elements' = PyValue(attr_list)
    /\ attr_returned' = Some(attr_elements')
    /\ attr_pc' = "returned"
    /\ UNCHANGED <<event_vars, manager_vars, vars_report, grid_attributes, attr_limit,
                   attr_index, attr_list, attr_requests>>

\* a report with some attributes, made with either setting of parallel
ElementsInit ==
    /\ InitObject
    /\ fault = "none"
    /\ total = 0
    /\ ~grid_cross_tab
    /\ progress_bar
    /\ ManagerAtRest
    /\ EventsAtRest
    /\ grid_attributes \in AttributeLists
    /\ ElementsIdle

ElementsNext ==
    \/ \E lim \in ElementLimits : AttrElementsCall(lim)
    \/ SeqAttribute
    \/ SeqAttrReturn
    \/ AsyncAttribute
    \/ AsyncAttrReturn

ElementsSpec == ElementsInit /\ [][ElementsNext]_vars

\* ---- Event (event.py)
\* version.parse(a) >= version.parse(b): the release numbers are compared in
\* their order
VersionAtLeast(a, b) ==
    \/ a[1] > b[1]
    \/ a[1] = b[1] /\ a[2] > b[2]
    \/ a[1] = b[1] /\ a[2] = b[2] /\ a[3] >= b[3]

\* lines 96-100: the getter of 'id', 'name' and 'description' for a connection
ApiGetter(web_version) ==
    IF VersionAtLeast(web_version, GETTER_VERSION) THEN "get_event" ELSE "get_info"

\* lines 59-76 and 96: _API_GETTERS is an attribute of the class, and line 96
\* sets an item of it; an object has no dictionary of its own, so the getter
\* an object uses is the one the class holds
GetterOf(object) == api_getter

\* the events of the server, as list_events gives them
EventInfos == [i \in DOMAIN server_events |-> [id |-> i, name |-> server_events[i]]]

\* line 107: list_events(connection, name=name, to_dictionary=True)
ListEvents(name) ==
    LET Named(info) == info.name = name
    IN  SelectSeq(EventInfos, Named)

\* an object that is looked up by the name when one is given
EntityLookupByName(id, name) ==
    IF name # None /\ ListEvents(name[1]) # <<>> THEN ListEvents(name[1])[1].id ELSE id

\* line 114: Entity.__init__(connection, object_id=id, name=name) fetches the
\* object of that ID
EntityLookup(id, name) == id

\* lines 96-114: Event(connection, id, name). The getter is set; without ID and
\* name AttributeError is raised; without ID the first event of the name is
\* taken, and ValueError raised where there is none; with an ID the object of
\* that ID is fetched, which fails where the server has none
EventInit(connection, id, name) ==
    /\ Len(event_objects) < MaxEvents
    /\ api_getter' = ApiGetter(connection)
    /\ event_args' = Some([connection |-> connection, id |-> id, name |-> name])
    /\ IF id = None /\ name = None
       THEN /\ event_raised' = "AttributeError"
            /\ event_objects' = event_objects
       ELSE IF id = None
       THEN IF ListEvents(name[1]) # <<>>
            THEN /\ event_raised' = "none"
                 /\ event_objects' =
                        Append(event_objects,
                               [connection |-> connection,
                                id |-> ListEvents(name[1])[1].id,
                                name |-> ListEvents(name[1])[1].name])
            ELSE /\ event_raised' = "ValueError"
                 /\ event_objects' = event_objects
       ELSE IF EntityLookup(id[1], name) \in DOMAIN server_events
            THEN /\ event_raised' = "none"
                 /\ event_objects' =
                        Append(event_objects,
                               [connection |-> connection,
                                id |-> EntityLookup(id[1], name),
                                name |-> server_events[EntityLookup(id[1], name)]])
            ELSE /\ event_raised' = "IServerError"
                 /\ event_objects' = event_objects
    /\ UNCHANGED <<elements_vars, manager_vars, vars_report, server_events>>

\* the arguments of Event(...)
EventIdArgs == {None} \cup {Some(i) : i \in 1..MaxServerEvents}
EventNameArgs == {None} \cup {Some(n) : n \in EventNames}

\* a server with some events, and no Event constructed
EventsInit ==
    /\ ReportAtRest
    /\ ManagerAtRest
    /\ ElementsAtRest
    /\ server_events \in EventLists
    /\ EventsIdle

EventsNext ==
    \E connection \in WebVersions, id \in EventIdArgs, name \in EventNameArgs :
        EventInit(connection, id, name)

EventsSpec == EventsInit /\ [][EventsNext]_vars

\* ---- what the checks below speak of
Succeeded == pc = "done"
Planned == path \in {"seq", "par"}
Table == returned[1]
RequestSet == {<<issued[k].offset, issued[k].limit>> : k \in DOMAIN issued}

\* the positions of table t where a page starts or ends. Between two of them
\* RowAt(t, i) - i does not change, the rows of a page being consecutive.
TableBreaks(t) ==
    {0} \cup UNION {{TableLen(SubSeq(t, 1, k)) - 1, TableLen(SubSeq(t, 1, k))} :
                      k \in DOMAIN t}

\* C1: a parallel run that succeeds has assembled a table whose row i is the
\* row at offset i of the instance, for every i below the total (it is checked
\* at the first and the last row of every page), whatever the order in which
\* the futures completed; the value returned is made of it.
C1_ParallelRowOrder ==
    (Succeeded /\ path = "par") =>
        /\ Table.pages = table
        /\ TableLen(table) = paging.total
        /\ \A i \in TableBreaks(table) :
            (0 <= i /\ i < paging.total) => RowAt(table, i) = i

\* a parallel run succeeded although a later chunk completed before an earlier
\* one, with two workers and a chunk limit other than the initial limit
C1_Witness ==
    /\ Succeeded /\ path = "par"
    /\ threads >= 2
    /\ limit # initial_limit
    /\ \E a, b \in DOMAIN arrivals : a < b /\ arrivals[a] > arrivals[b]

\* ---- the sequential path as a function of the plan: the table and the
\* requests of __fetch_chunks when every request succeeds
RECURSIVE SequentialTableFrom(_, _, _, _, _)
SequentialTableFrom(t, f, offset, tot, lim) ==
    IF offset >= tot THEN t
    ELSE SequentialTableFrom(Parse(t, Page(f, offset, lim)), f, offset + lim, tot, lim)

SequentialTable(f, il, tot, lim) ==
    SequentialTableFrom(<<Page(f, 0, il)>>, f, il, tot, lim)

SequentialRequests(il, tot, lim) ==
    {<<il + j * lim, lim>> : j \in 0..(RangeLen(il, tot, lim) - 1)}

\* C2: for the same total, initial limit and chunk limit, a run that succeeds
\* has issued the chunk requests of the sequential path and returns the rows of
\* the sequential path (those the cross-tab filter of the call selects from
\* them, when one is set), whichever of the two paths it took.
C2_SequentialParallelEquivalent ==
    (Succeeded /\ Planned) =>
        /\ Table.pages =
            SequentialTable(Table.filter, initial_limit, paging.total, limit)
        /\ Table.pages = table
        /\ RequestSet = SequentialRequests(initial_limit, paging.total, limit)
        /\ Len(issued) = Cardinality(RequestSet)

\* a parallel run of several chunks, whose limit is not the initial limit, succeeded
C2_Witness ==
    /\ Succeeded /\ path = "par"
    /\ Len(issued) >= 2
    /\ limit # initial_limit

\* the requests of a run, the first page included, whose window holds offset i
Covering(i) ==
    (IF i < initial_limit THEN 1 ELSE 0)
    + Cardinality({k \in DOMAIN issued :
                     issued[k].offset <= i /\ i < issued[k].offset + issued[k].limit})

\* the offsets where a window of a request starts or ends, with the first and
\* the last offset. Between two of them Covering does not change.
WindowBreaks ==
    {0, paging.total - 1, initial_limit - 1, initial_limit}
    \cup UNION {{issued[k].offset - 1, issued[k].offset,
                 issued[k].offset + issued[k].limit - 1,
                 issued[k].offset + issued[k].limit} : k \in DOMAIN issued}

\* the chunk requests of a run are at the offsets initial_limit,
\* initial_limit + limit, ... below the total, and every offset below the
\* total lies in the window of exactly one request (it is checked where the
\* windows start and end)
ExactCover ==
    /\ \A k \in DOMAIN issued :
        /\ issued[k].offset = initial_limit + (k - 1) * limit
        /\ issued[k].offset < paging.total
    /\ \A i \in WindowBreaks : (0 <= i /\ i < paging.total) => Covering(i) = 1

\* C3 as stated: a run that succeeds returns exactly total rows, and its
\* requests cover every offset below the total exactly once.
C3_ReturnedTotalRows ==
    Succeeded => (DfLen(Table) = paging.total /\ ExactCover)

\* C3: a run that succeeds has assembled exactly total rows, from requests
\* that cover every offset below the total exactly once; it returns all of
\* them when no cross-tab filter on attribute elements is set, and otherwise
\* the rows among them whose element the filter lists.
C3_ExactCover ==
    Succeeded =>
        /\ TableLen(table) = paging.total
        /\ Table.pages = table
        /\ Table.keep = None => DfLen(Table) = paging.total
        /\ Table.keep # None =>
            DfLen(Table) = KeptIn(Table.filter, 0, paging.total, Table.keep[1])
        /\ ExactCover

\* a run of several chunks succeeded whose last chunk is shorter than the
\* limit, and returned every row
C3_Witness ==
    /\ Succeeded /\ Planned
    /\ Len(issued) >= 2
    /\ (paging.total - initial_limit) % limit # 0
    /\ DfLen(Table) = paging.total
    /\ paging.total > 0

\* C4: in the sequential path, once a chunk request has failed the call has
\* ended with the error of that request: the failed request is the last one
\* issued, none has a larger offset, and nothing is returned.
C4_SequentialAbort ==
    (path = "seq" /\ error # None) =>
        /\ pc = "failed"
        /\ returned = None
        /\ issued # <<>>
        /\ issued[Len(issued)].offset = error[1]
        /\ \A k \in DOMAIN issued : issued[k].offset <= error[1]

\* the first of two chunks failed in the sequential path, and the second was
\* never asked for
C4_Witness ==
    /\ pc = "failed" /\ path = "seq"
    /\ it_total = 2
    /\ Len(issued) = 1
    /\ error = Some(initial_limit)

\* C5: when a call that took the parallel path has ended, every future has
\* completed; and if a chunk request failed, the call has failed, its error is
\* the error of a failed request and nothing is returned.
C5_ParallelFailure ==
    (path = "par" /\ pc \in {"done", "failed"}) =>
        /\ Finished(tasks)
        /\ Failed(tasks) # {} =>
            /\ pc = "failed"
            /\ returned = None
            /\ error # None
            /\ \E k \in Failed(tasks) : tasks[k].offset = error[1]

\* a parallel call failed on its first future, whose request completed last,
\* while a later request failed too, and every future has completed
C5_Witness ==
    /\ pc = "failed" /\ path = "par"
    /\ cursor = 1
    /\ Cardinality(Failed(tasks)) >= 2
    /\ arrivals[Len(arrivals)] = tasks[1].offset
    /\ Finished(tasks)

\* C6: a run whose later pages report a total other than the first page's
\* does not succeed.
C6_InconsistentTotalFails ==
    (Succeeded /\ Planned /\ Len(Table.pages) > 1) => later_total = paging.total

\* C7: when the first page holds every row the call has ended at once: it
\* returns the table of that page alone, and no plan is made, no progress bar
\* started and no chunk request issued.
C7_SinglePage ==
    (path # "none" /\ paging.current = paging.total) =>
        /\ Succeeded
        /\ path = "single"
        /\ Table.pages = <<Page(Table.filter, 0, initial_limit)>>
        /\ Table.pages = table
        /\ issued = <<>>
        /\ tasks = <<>>
        /\ pbar_n = 0

\* a call ended on a first page of exactly initial_limit rows
C7_Witness ==
    /\ Succeeded /\ path = "single"
    /\ paging.total = initial_limit
    /\ TableLen(Table.pages) = initial_limit

\* C8: when rows remain after the first page, the fan-out runs exactly when
\* parallel is set and there is more than one iteration, and the sequential
\* loop runs otherwise; the sequential path submits no future, and in the
\* parallel path every request is the request of a started future and every
\* page parsed is the page of a consumed future.
C8_PathChoice ==
    Planned =>
        /\ path = "par" <=> (parallel /\ it_total > 1)
        /\ path = "seq" <=> (~parallel \/ it_total <= 1)
        /\ path = "seq" => (tasks = <<>> /\ threads = 0 /\ arrivals = <<>>)
        /\ path = "par" =>
            /\ Len(issued) = Cardinality(DOMAIN tasks \ Queued(tasks))
            /\ Len(table) = cursor

\* a report with parallel set took the sequential path for its single chunk
C8_Witness ==
    /\ Succeeded /\ path = "seq"
    /\ parallel
    /\ it_total = 1
    /\ Len(issued) = 1

\* q is the floor of initial_limit * SIZE_LIMIT / raw_size. The sizes are
\* multiples of 1000 bytes, and both products are taken in units of 1000.
IsDerivedQuotient(q) ==
    /\ q * (raw_size \div 1000) <= initial_limit * (SIZE_LIMIT \div 1000)
    /\ initial_limit * (SIZE_LIMIT \div 1000) < (q + 1) * (raw_size \div 1000)

\* C9: the limit of every chunk request is the limit argument when one is given
\* and positive, and otherwise the larger of MIN_CHUNK and the floor of
\* initial_limit * SIZE_LIMIT / raw_size (the floor itself when it exceeds
\* MIN_CHUNK, and MIN_CHUNK when the floor is at most MIN_CHUNK); an initial
\* limit of 1000 and a first page of 2,000,000 bytes give 5000.
C9_ChunkLimit ==
    Planned =>
        /\ \A k \in DOMAIN issued : issued[k].limit = limit
        /\ IF limit_arg # None /\ limit_arg[1] > 0
           THEN limit = limit_arg[1]
           ELSE /\ limit >= MIN_CHUNK
                /\ limit > MIN_CHUNK => IsDerivedQuotient(limit)
                /\ limit = MIN_CHUNK =>
                    initial_limit * (SIZE_LIMIT \div 1000)
                        < (MIN_CHUNK + 1) * (raw_size \div 1000)
                /\ (initial_limit = 1000 /\ raw_size = 2000000) => limit = 5000

\* a call without a limit, on an initial limit of 1000 and a first page of
\* 2,000,000 bytes, asked for a chunk of 5000 rows
C9_Witness ==
    /\ Planned
    /\ limit_arg = None
    /\ initial_limit = 1000
    /\ raw_size = 2000000
    /\ issued # <<>>
    /\ issued[1].limit = 5000

\* C10: when a plan is made the total exceeds the initial limit and it_total
\* is the ceiling of (total - initial_limit) / limit, which is the number of
\* chunk requests of a run that succeeds; when the total does not exceed the
\* initial limit no plan is made and no iteration takes place.
C10_IterationCount ==
    /\ Planned =>
        /\ paging.total > initial_limit
        /\ it_total * limit >= paging.total - initial_limit
        /\ (it_total - 1) * limit < paging.total - initial_limit
        /\ Succeeded => Len(issued) = it_total
    /\ (path # "none" /\ paging.total <= initial_limit) =>
        /\ path = "single"
        /\ it_total = 0
        /\ issued = <<>>

\* a plan of several iterations whose last chunk is not full
C10_Witness ==
    /\ Planned
    /\ it_total >= 2
    /\ (paging.total - initial_limit) % limit # 0
    /\ limit # initial_limit

\* C11: a call whose first response has an empty body, or reports a negative
\* total, issues no chunk request and does not succeed.
C11_InvalidPlanFails ==
    fault \in {"negative_total", "empty_body"} =>
        /\ issued = <<>>
        /\ ~Succeeded

\* C12: in the parallel path the futures of every chunk are submitted at once,
\* and at every moment the requests in flight number at most the max_workers
\* given to the session.
C12_BoundedInFlight ==
    path = "par" =>
        /\ threads >= 1
        /\ Len(tasks) = it_total
        /\ Cardinality(Running(tasks)) <= threads

\* a session of one worker has a request in flight while a submitted future waits
C12_Witness ==
    /\ pc = "par"
    /\ threads = 1
    /\ Cardinality(Running(tasks)) = 1
    /\ Queued(tasks) # {}

\* the futures the driving loop has taken by now in the parallel path
Consumed == cursor - 1

\* the progress bar of the parallel path at a moment: one update for the first
\* page and one for every future consumed, each of which has completed, and
\* the rows of the chunks consumed; a disabled bar shows nothing
ParallelProgressNow ==
    path = "par" =>
        /\ \A k \in 1..Consumed : tasks[k].st = "ok"
        /\ progress_bar => pbar_n = 1 + Consumed
        /\ (progress_bar /\ Consumed > 0) =>
            pbar_rows = Min(initial_limit + Consumed * limit, paging.total)
        /\ (progress_bar /\ Succeeded) => pbar_n = 1 + Len(tasks)
        /\ ~progress_bar => (pbar_n = 0 /\ pbar_rows = 0)

\* a step of a parallel run moves the count by at most one and never back, and
\* never lowers the rows
ParallelProgressStep ==
    (path = "par" /\ path' = "par" /\ calls' = calls) =>
        /\ pbar_n' \in {pbar_n, pbar_n + 1}
        /\ pbar_rows' >= pbar_rows

\* C13: in the parallel path the progress bar is advanced once for every
\* future the driving loop consumes, so once per chunk in a run that succeeds,
\* and neither its count nor its rows ever decrease, in whatever order the
\* futures complete.
C13_ParallelProgress == []ParallelProgressNow /\ [][ParallelProgressStep]_vars

\* a parallel run with the bar enabled succeeded with one update per chunk
\* although the second chunk completed before the first
C13_Witness ==
    /\ Succeeded /\ path = "par"
    /\ progress_bar
    /\ pbar_n = 1 + Len(tasks)
    /\ pbar_rows = paging.total
    /\ Len(arrivals) >= 2 /\ arrivals[1] > arrivals[2]

\* the values a and b hold the same rows in the same order: they come from
\* instances of the same filter, select by the same cross-tab filter, and
\* their tables hold the same row at every position (it is checked at the
\* first and the last row of every page of either)
SameRows(a, b) ==
    /\ a.filter = b.filter
    /\ a.keep = b.keep
    /\ TableLen(a.pages) = TableLen(b.pages)
    /\ \A i \in TableBreaks(a.pages) \cup TableBreaks(b.pages) :
        (0 <= i /\ i < TableLen(a.pages)) => RowAt(a.pages, i) = RowAt(b.pages, i)

\* C14: a call that succeeds on a report whose earlier call succeeded, with no
\* filter changed in between, returns the rows the earlier call returned, in
\* the same order.
C14_IdempotentRerun ==
    (Succeeded /\ previous # None
        /\ previous[1].filter = Table.filter /\ previous[1].keep = Table.keep) =>
        SameRows(previous[1], Table)

\* a second call reused the instance of the first and returned its rows again,
\* in chunks of another size
C14_Witness ==
    /\ Succeeded /\ calls = 2
    /\ previous # None
    /\ instance_id # None /\ instance_id[1].n = 1
    /\ Planned
    /\ previous[1].pages # Table.pages
    /\ SameRows(previous[1], Table)

\* C15: what a call does is decided by its arguments, the report and the
\* server alone, whether the progress bar is enabled or not: the limit, the
\* number of iterations and the path are those of the plan, the chunk requests
\* are those of the range in its order, and a run that succeeds has issued all
\* of them and returns the table of the sequential loop.
C15_ProgressNoControlFlow ==
    Planned =>
        /\ limit = ChunkLimit(limit_arg, initial_limit, raw_size)
        /\ it_total = ItTotal(paging.total, initial_limit, limit)
        /\ path = "par" <=> UseParallel(parallel, it_total)
        /\ \A k \in DOMAIN issued :
            /\ issued[k].offset = initial_limit + (k - 1) * limit
            /\ issued[k].limit = limit
        /\ Succeeded =>
            /\ Len(issued) = RangeLen(initial_limit, paging.total, limit)
            /\ Table.pages =
                SequentialTable(Table.filter, initial_limit, paging.total, limit)

\* a run with the progress bar disabled fetched several chunks and succeeded,
\* its bar showing nothing
C15_Witness ==
    /\ Succeeded /\ Planned
    /\ ~progress_bar
    /\ Len(issued) >= 2
    /\ pbar_n = 0

\* a step of a parallel run that changes the table is one pass of the driving
\* loop: it takes the next future of the list, which has completed, appends
\* its page, and starts or completes no request
TableStepIsMerge ==
    (path = "par" /\ pc \in {"par", "drain"} /\ calls' = calls /\ table' # table) =>
        /\ pc = "par"
        /\ cursor \in DOMAIN tasks
        /\ tasks[cursor].st = "ok"
        /\ cursor' = cursor + 1
        /\ tasks' = tasks /\ issued' = issued /\ arrivals' = arrivals
        /\ table' = Append(table, Page(instance_id[1].filter, tasks[cursor].offset, limit))

\* C16: in the parallel path the table changes only in the merge of the
\* driving loop, one page at a time; the steps of the workers leave it alone.
C16_TableOnlyMerged == [][TableStepIsMerge]_vars

\* the request of a later chunk has completed with its page while that of the
\* first chunk is in flight, and the table still holds the first page alone
C16_Witness ==
    /\ pc = "par"
    /\ Len(table) = 1
    /\ tasks[1].st = "running"
    /\ \E k \in DOMAIN tasks : k > 1 /\ tasks[k].st = "ok"

\* the sequential loop at a moment: its offset is the initial limit plus one
\* chunk limit for every page fetched, the requests issued are those below
\* it, and once it has ended without an error the offset has reached the total
SeqLoopShape ==
    path = "seq" =>
        /\ limit > 0
        /\ cursor = initial_limit + (Len(table) - 1) * limit
        /\ \A k \in DOMAIN issued : issued[k].offset = initial_limit + (k - 1) * limit
        /\ pc = "seq" => Len(issued) = Len(table) - 1
        /\ Succeeded => (cursor >= paging.total /\ cursor - limit < paging.total)

\* C17: the sequential loop starts at the initial limit, moves on by the
\* chunk limit after every page and ends once the offset has reached the
\* total; with every request returning, a call in the loop comes to its end.
C17_SequentialTerminates ==
    /\ []SeqLoopShape
    /\ (pc = "seq") ~> (pc \in {"done", "failed"})

\* the loop has ended after two fetches, its offset past a total that is not
\* a multiple of the chunk limit away
C17_Witness ==
    /\ Succeeded /\ path = "seq"
    /\ Len(issued) = 2
    /\ cursor > paging.total

\* ---- SubscriptionManager.delete
\* the call is over, by a return or by an exception
ManagerCallOver == stage \in {"returned", "raised"}

\* the deletion proceeds: force is set or the user answered 'Y'
DeleteProceeds == force \/ user_input = Some("Y")

\* one remove request was sent for each passed subscription, in their order,
\* and True is returned exactly when every one of them succeeded
DeleteRemovedAll ==
    /\ stage = "returned"
    /\ IdsOf(remove_requests) = IdsOf(passed.items)
    /\ result[1].value <=> (\A i \in DOMAIN remove_requests : remove_requests[i].ok)

DeleteRemovesEachGiven ==
    (method = "delete" /\ ManagerCallOver /\ DeleteProceeds
        /\ (passed.items # <<>> \/ ~config_verbose)) => DeleteRemovedAll

\* ---- SubscriptionManager.execute
\* the passed IDs whose subscription has one of the four delivery modes
ExecutableOf(ids) ==
    LET Executable(id) == delivery_mode[id] \in ExecutableModes
    IN  SelectSeq(ids, Executable)

\* the passed IDs whose subscription has another delivery mode
NotExecutableOf(ids) ==
    LET Other(id) == delivery_mode[id] \notin ExecutableModes
    IN  SelectSeq(ids, Other)

RecipientsReturned == result[1] = PyValue(response[1].recipients)

\* C20: available_recipients returns the recipients of the server's response
\* whenever the request succeeds, whatever config.verbose is
C20_RecipientsReturned ==
    (method = "available_recipients" /\ stage = "returned" /\ response[1].ok) =>
        RecipientsReturned

\* the same for the calls made with config.verbose set
RecipientsReturnedIfVerbose ==
    (method = "available_recipients" /\ stage = "returned" /\ response[1].ok
        /\ config_verbose) => RecipientsReturned

\* ---- the filters and the instance
\* the instance the report holds was made with the body of its current filter
StoredInstanceOfFilter == instance_id # None => instance_id[1].filter = filter_sel

\* a step of clear_filters, or of apply_filters with elements on a report not
\* known to be cross-tab, drops the instance; apply_filters without arguments
\* on such a report leaves the filter and the instance; and the first page of
\* a call on a report without an instance comes from a new instance, made with
\* the body of the filter
FilterStep ==
    /\ ClearFilters => instance_id' = None
    /\ \A ae \in FilterArgs \ {None} :
        (ApplyFilters(ae) /\ ~cross_tab) => instance_id' = None
    /\ (ApplyFilters(None) /\ ~cross_tab) => UNCHANGED <<filter_sel, instance_id>>
    /\ (pc = "first" /\ pc' \in {"seq", "par", "done"} /\ instance_id = None) =>
        /\ instance_id' = NewInstance
        /\ instance_id'[1].filter = filter_sel

\* C22: clear_filters, and apply_filters with an argument that is not None on
\* a report that is not cross-tab, clear the stored instance id, so that the
\* next to_dataframe call initializes a new instance with the new filter body
\* and never fetches from the instance of the old filter; apply_filters with
\* every argument None on such a report leaves the filter and the instance id
C22_FiltersClearInstance == []StoredInstanceOfFilter /\ [][FilterStep]_vars

\* a call returned the rows of the filtered instance, clear_filters was called,
\* and the next call returned the rows of a new instance of the whole report
C22_Witness ==
    /\ Succeeded /\ calls = 2
    /\ previous # None /\ previous[1].filter = Some({0})
    /\ filter_sel = None
    /\ Table.filter = None
    /\ instance_id = Some([n |-> 2, filter |-> None])

\* ---- a stored instance that the server no longer serves
\* the call found an instance stored and its first page came from another
StoredInstanceFailed == stored # None /\ instance_id # stored

\* C23: in a call that finds an instance stored whose first chunk raises an
\* HTTP error, a new instance is initialized, and every chunk fetch of the
\* run, sequential or parallel, goes to the instance of the first response,
\* never to the stored one
C23_StaleInstanceReplaced ==
    (pc \in {"seq", "par"} /\ StoredInstanceFailed) =>
        /\ instance_id = Some([n |-> calls, filter |-> filter_sel])
        /\ \A k \in DOMAIN issued :
            issued[k].instance = instance_id /\ issued[k].instance # stored

\* a parallel run replaced the stored instance of the same filter and fetched
\* its chunks from the new one
C23_Witness ==
    /\ Succeeded /\ path = "par"
    /\ StoredInstanceFailed
    /\ stored[1].filter = filter_sel
    /\ instance_id = Some([n |-> calls, filter |-> filter_sel])
    /\ Len(issued) >= 2
    /\ \A k \in DOMAIN issued : issued[k].instance = instance_id

\* ---- the stored dataframe
\* the call is under way, or it has failed
NotReturned == pc \in {"first", "seq", "par", "drain", "failed"}

\* C27: when to_dataframe fails, by a chunk fetch that raises on either path
\* or by its first request, the stored dataframe is the one the call found:
\* the value of the last call that succeeded, or None; and a stored dataframe
\* is never a table assembled in part
C27_DataframeKeptOnFailure ==
    /\ NotReturned => dataframe = previous
    /\ dataframe # None =>
        TableLen(dataframe[1].pages) = InstRows(dataframe[1].filter)

\* a call failed at a chunk after it had parsed pages, on a report that holds
\* the dataframe of an earlier call
C27_Witness ==
    /\ pc = "failed"
    /\ error # None /\ error # Some(0)
    /\ table # <<>> /\ TableLen(table) < paging.total
    /\ previous # None
    /\ dataframe = previous
    /\ dataframe[1].pages # table

\* ---- the attribute elements
\* every element of every attribute of the report, in the order of the
\* attributes
AllElements ==
    [i \in DOMAIN grid_attributes |->
        AttributeEntry(i, [k \in 1..grid_attributes[i] |-> k - 1])]

\* C26: the sequential and the asynchronous retrieval of the attribute
\* elements return the same value for every report, one without attributes
\* included: one entry for each attribute, in the order of the attributes, that
\* holds the pages of its elements at the offsets 0, limit, 2 * limit, ...
\* below the total, one after another
C26_SameElements ==
    attr_pc = "returned" => attr_returned = Some(PyValue(AllElements))

\* the same for the reports that have an attribute
SameElementsOfAttributes ==
    (attr_pc = "returned" /\ grid_attributes # <<>>) =>
        attr_returned = Some(PyValue(AllElements))

\* the sequential retrieval of a report without attributes returns the
\* empty list
SequentialElementsOfNone ==
    (attr_pc = "returned" /\ grid_attributes = <<>> /\ ~parallel) =>
        attr_returned = Some(PyValue(<<>>))

\* ---- Event
\* the Event object the last call constructed
LastEvent == event_objects[Len(event_objects)]

\* C21: Event(connection, id, name) with neither ID nor name raises
\* AttributeError; with a name and no ID it takes the event of that name, and
\* raises ValueError when the server has none; with an ID the name is not
\* used for the lookup: the object is the event of that ID
C21_EventTarget ==
    event_args # None =>
        LET id == event_args[1].id
            name == event_args[1].name
        IN  /\ (id = None /\ name = None) => event_raised = "AttributeError"
            /\ (id = None /\ name # None /\ ListEvents(name[1]) = <<>>) =>
                   event_raised = "ValueError"
            /\ (id = None /\ name # None /\ ListEvents(name[1]) # <<>>) =>
                   /\ event_raised = "none"
                   /\ LastEvent.name = name[1]
                   /\ LastEvent.id = ListEvents(name[1])[1].id
            /\ (id # None /\ id[1] \in DOMAIN server_events) =>
                   /\ event_raised = "none"
                   /\ LastEvent.id = id[1]
                   /\ LastEvent.name = server_events[id[1]]
            /\ (id # None /\ id[1] \notin DOMAIN server_events) =>
                   event_raised \notin {"none", "AttributeError", "ValueError"}

\* an Event was made with the ID of one event and the name of another: it is
\* the event of the ID
C21_Witness ==
    /\ event_args # None
    /\ event_args[1].id = Some(2)
    /\ event_args[1].name = Some("daily")
    /\ server_events = <<"daily", "weekly">>
    /\ event_raised = "none"
    /\ LastEvent.id = 2 /\ LastEvent.name = "weekly"

\* C25: the getter every Event object uses for 'id', 'name' and 'description'
\* is events.get_event if and only if the web_version of its own connection
\* is 11.3.0200 or later, whatever other Event objects are constructed after
\* it with connections of other versions
C25_GetterOfOwnConnection ==
    \A i \in DOMAIN event_objects :
        GetterOf(event_objects[i]) = "get_event"
            <=> VersionAtLeast(event_objects[i].connection, GETTER_VERSION)

\* the same for the Event object constructed last
GetterOfLastConnection ==
    (event_objects # <<>> /\ event_raised = "none") =>
        (GetterOf(LastEvent) = "get_event"
            <=> VersionAtLeast(LastEvent.connection, GETTER_VERSION))

\* ---- SubscriptionManager.delete without consent
\* the call was made without force and the user answered something else
\* than 'Y'
DeleteDeclined ==
    /\ method = "delete"
    /\ stage = "returned"
    /\ ~force
    /\ user_input # Some("Y")

DeclinedRemovesNothing ==
    DeleteDeclined =>
        /\ remove_requests = <<>>
        /\ result[1].value <=> (passed.items = <<>>)
====
